---- MODULE Spec2Model ----
(***************************************************************************)
(* SubdomainCrawler of src/heretic.py: a recursive, single-threaded crawl  *)
(* of one web domain, with its URL resolution helpers.                     *)
(*                                                                         *)
(* A URL string is represented by the components urlparse() splits it      *)
(* into: scheme, netloc and path.  A path string is represented by the     *)
(* list path.split('/') gives, so "" is <<"">>, "/" is <<"", "">>, "/a/b"  *)
(* is <<"", "a", "b">> and "a/b" is <<"a", "b">>.  Queries and params do   *)
(* not occur in the links of the model.                                    *)
(***************************************************************************)
EXTENDS Integers, Sequences, FiniteSets, TLC

VARIABLES base_url, visited, seen, stack, hrefs, site, got, faults, fetchLog,
          requestLog, returned, phase, fn_url, fn_out, fn_scope, fn_abs

vars == <<base_url, visited, seen, stack, hrefs, site, got, faults, fetchLog,
          requestLog, returned, phase, fn_url, fn_out, fn_scope, fn_abs>>

crawlVars == <<base_url, visited, seen, stack, hrefs, site, got, faults,
               fetchLog, requestLog, returned, phase>>
fnVars == <<fn_url, fn_out, fn_scope, fn_abs>>

(***************************************************************************)
(* Bounds of the model, and the number of attempts the program makes.      *)
(***************************************************************************)
\* anchors on all the pages of the site together
MaxLinks == 3
\* range(3) in __get_http_from_website
MaxAttempts == 3
\* segments after the leading '/' in the paths the pure functions are fed
MaxSegs == 3
\* attempts of the Link Source that fail during one run
MaxFaults == 3

SeqsUpTo(S, n) == UNION {[1..k -> S] : k \in 0..n}

\* F(x), with x evaluated once before F is entered
WithValue(F(_), x) == CHOOSE r \in {F(v) : v \in {x}} : TRUE

(***************************************************************************)
(* The strings of the model.                                               *)
(***************************************************************************)
Schemes == {"http", "https"}
Netlocs == {"base.com", "sub.base.com", "other.com", "base.com:8080"}
Segments == {"", ".", "..", "a", "b", "p.html", "i.png"}

\* '.' in segment
ContainsDot(seg) == seg \in {".", "..", "p.html", "i.png"}
\* segment.endswith('.html')
EndsWithHtml(seg) == seg \in {"p.html"}

Url(s, n, p) == [scheme |-> s, netloc |-> n, path |-> p]
Link(s, n, p, f) == [scheme |-> s, netloc |-> n, path |-> p, fragment |-> f]

\* the seeds a crawler is constructed with
BaseUrls == {Url("https", "base.com", <<"", "">>),
             Url("https", "base.com", <<"", "dir", "">>)}

\* the href values the pages of the site are written with
RawLinks ==
  { Link("", "", <<"", "a">>, ""),                   \* /a
    Link("", "", <<".", "p.html">>, "f"),            \* ./p.html#f
    Link("", "", <<"i.png">>, ""),                   \* i.png
    Link("", "", <<"..">>, ""),                      \* ..
    Link("", "", <<".">>, ""),                       \* .
    Link("https", "other.com", <<"", "">>, ""),      \* https://other.com/
    Link("http", "base.com", <<"", "a">>, "") }      \* http://base.com/a

\* the href values of the pages behind a server whose answers fail
FaultLinks ==
  { Link("", "", <<"", "a">>, "") }                  \* /a

(***************************************************************************)
(* urllib.parse and os.path, as the crawler calls them.                    *)
(***************************************************************************)
StartsWithSlash(path) == Len(path) >= 2 /\ path[1] = ""

\* ParseResult.geturl(): a non-empty path that does not start with '/' is
\* written after the netloc with a '/' put before it
geturl(parts) ==
  IF parts.netloc # "" /\ parts.path # <<"">> /\ parts.path[1] # ""
  THEN [parts EXCEPT !.path = <<"">> \o parts.path]
  ELSE parts

\* the loop of os.path.normpath over path.split('/')
RECURSIVE NormComps(_, _, _)
NormComps(comps, new_comps, initial_slashes) ==
  IF comps = <<>> THEN new_comps
  ELSE LET comp == Head(comps)
           n == Len(new_comps)
           next ==
             IF comp \in {"", "."} THEN new_comps
             ELSE IF comp # ".."
                     \/ (initial_slashes = 0 /\ n = 0)
                     \/ (n > 0 /\ new_comps[n] = "..")
                  THEN Append(new_comps, comp)
                  ELSE IF n > 0 THEN SubSeq(new_comps, 1, n - 1)
                  ELSE new_comps
           Rest(nc) == NormComps(Tail(comps), nc, initial_slashes)
       IN WithValue(Rest, next)

normpath(path) ==
  IF path = <<"">> THEN <<".">>
  ELSE LET initial_slashes ==
             IF ~StartsWithSlash(path) THEN 0
             ELSE IF Len(path) >= 3 /\ path[2] = ""
                     /\ ~(Len(path) >= 4 /\ path[3] = "")
                  THEN 2
                  ELSE 1
           Joined(comps) ==
             IF initial_slashes = 0
             THEN (IF comps = <<>> THEN <<".">> ELSE comps)
             ELSE [k \in 1..initial_slashes |-> ""]
                  \o (IF comps = <<>> THEN <<"">> ELSE comps)
       IN WithValue(Joined, NormComps(path, <<>>, initial_slashes))

\* the dot-segment loop of urljoin
RECURSIVE JoinSegs(_, _)
JoinSegs(segments, resolved_path) ==
  IF segments = <<>> THEN resolved_path
  ELSE LET seg == Head(segments)
           n == Len(resolved_path)
           next ==
             IF seg = ".."
             THEN (IF n > 0 THEN SubSeq(resolved_path, 1, n - 1) ELSE resolved_path)
             ELSE IF seg = "." THEN resolved_path
             ELSE Append(resolved_path, seg)
           Rest(rp) == JoinSegs(Tail(segments), rp)
       IN WithValue(Rest, next)

\* filter(None, segments[1:-1])
DropEmptyMiddle(segments) ==
  LET n == Len(segments)
  IN IF n <= 2 THEN segments
     ELSE <<segments[1]>>
          \o SelectSeq(SubSeq(segments, 2, n - 1), LAMBDA s : s # "")
          \o <<segments[n]>>

urljoin(base, url) ==
  IF url.scheme = "" /\ url.netloc = "" /\ url.path = <<"">> THEN base
  ELSE IF url.scheme \notin {"", base.scheme} THEN url
  ELSE IF url.netloc # "" THEN geturl(Url(base.scheme, url.netloc, url.path))
  ELSE IF url.path = <<"">> THEN geturl(Url(base.scheme, base.netloc, base.path))
  ELSE LET bpath == base.path
           base_parts ==
             IF bpath[Len(bpath)] # "" THEN SubSeq(bpath, 1, Len(bpath) - 1)
             ELSE bpath
           segments ==
             IF url.path[1] = "" /\ Len(url.path) >= 2 THEN url.path
             ELSE DropEmptyMiddle(base_parts \o url.path)
           resolved_path ==
             IF segments[Len(segments)] \in {".", ".."}
             THEN Append(JoinSegs(segments, <<>>), "")
             ELSE JoinSegs(segments, <<>>)
           Joined(rp) ==
             geturl(Url(base.scheme, base.netloc,
                        IF rp \in {<<>>, <<"">>} THEN <<"", "">> ELSE rp))
       IN WithValue(Joined, resolved_path)

(***************************************************************************)
(* The helpers of SubdomainCrawler.                                        *)
(***************************************************************************)
\* link.split('#')[0]
StripFragment(link) == Url(link.scheme, link.netloc, link.path)

\* link.startswith("http"): no relative link of the model begins with "http"
StartsWithHttp(link) == link.scheme # ""

\* link.startswith("/")
LinkStartsWithSlash(link) ==
  link.scheme = "" /\ (link.netloc # "" \/ StartsWithSlash(link.path))

\* faulty variant: the schemes are compared instead of the netlocs
is_current_domain_by_scheme(parsed_link, base) == parsed_link.scheme = base.scheme

\* urlparse(netloc).hostname of the netlocs of the model
HostOf(netloc) == IF netloc = "base.com:8080" THEN "base.com" ELSE netloc

\* faulty variant: the hostnames are compared, the port is left out
is_current_domain_by_host(parsed_link, base) ==
  HostOf(parsed_link.netloc) = HostOf(base.netloc)

is_current_domain(parsed_link, base) == parsed_link.netloc = base.netloc

\* faulty variant: a link that starts with '/' is joined to the current page
normalize_link_from_current(base, current_url, link) ==
  IF StartsWithHttp(link) THEN link ELSE urljoin(current_url, link)

\* __normalize_link: as it is, against base_url, or against the current page
normalize_link(base, current_url, link) ==
  IF StartsWithHttp(link) THEN link
  ELSE IF LinkStartsWithSlash(link) THEN urljoin(base, link)
  ELSE urljoin(current_url, link)

resolve_dot_segments(url) ==
  LET Replace(path) == geturl([url EXCEPT !.path = path])
  IN WithValue(Replace, normpath(url.path))

absolute_link(base, current_url, path) ==
  LET normalized == normalize_link(base, current_url, path)
  IN WithValue(resolve_dot_segments, normalized)

\* faulty variant: only the '.html' ending is followed
has_html_ending(parsed_link) == EndsWithHtml(parsed_link.path[Len(parsed_link.path)])

\* parsed_link.path.endswith('.html') or '.' not in os.path.basename(parsed_link.path)
has_page_ending(parsed_link) ==
  LET last == parsed_link.path[Len(parsed_link.path)]
  IN EndsWithHtml(last) \/ ~ContainsDot(last)

\* faulty variant: seen is not consulted
is_crawlable_whatever_seen(full_link, parsed_link, seen_set) ==
  has_page_ending(parsed_link)

is_crawlable(full_link, parsed_link, seen_set) ==
  full_link \notin seen_set /\ has_page_ending(parsed_link)

\* faulty variant: the two counts change places
crawl_result_swapped(seen_set, visited_set) ==
  [seen_count |-> Cardinality(visited_set), visited_count |-> Cardinality(seen_set)]

\* the dictionary crawl returns
crawl_result(seen_set, visited_set) ==
  [seen_count |-> Cardinality(seen_set), visited_count |-> Cardinality(visited_set)]

(***************************************************************************)
(* The web site: the href values of the anchors of each page, fixed the    *)
(* first time the page is requested.  got holds, for each call of the Link *)
(* Source that has returned, the list it returned and whether an attempt   *)
(* got through.                                                            *)
(***************************************************************************)
RECURSIVE AnchorCount(_)
AnchorCount(s) ==
  IF DOMAIN s = {} THEN 0
  ELSE LET u == CHOOSE x \in DOMAIN s : TRUE
       IN Len(s[u]) + AnchorCount([x \in DOMAIN s \ {u} |-> s[x]])

\* the link lists a page not requested before may turn out to hold
PageLinks(s) == SeqsUpTo(hrefs, MaxLinks - AnchorCount(s))

(***************************************************************************)
(* crawl(), one recursion frame per call in progress.  A frame is at       *)
(* "enter" before the visited test of line 65, at "fetch" inside           *)
(* __get_http_from_website, where links is the list being filled and i the *)
(* number of attempts begun, and at "loop" inside the for statement of     *)
(* crawl, about to take links[i].                                          *)
(***************************************************************************)
Frame(url, pc, links, i) == [url |-> url, pc |-> pc, links |-> links, i |-> i]

Top == stack[Len(stack)]
Pop == SubSeq(stack, 1, Len(stack) - 1)
SetTop(f) == [stack EXCEPT ![Len(stack)] = f]

\* faulty variant: the visited test is left out
never_visited(url, visited_set) == FALSE

\* faulty variant: the seed is not looked up in visited
visited_below_seed(url, visited_set) == url \in visited_set \ {base_url}

\* url in self.visited
already_visited(url, visited_set) == url \in visited_set

\* faulty variant: a link of another domain is not recorded
seen_add_skips_external(seen_set, full_link, branch) ==
  IF branch = "external" THEN seen_set ELSE seen_set \cup {full_link}

\* faulty variant: a link that is followed is not recorded
seen_add_skips_crawlable(seen_set, full_link, branch) ==
  IF branch = "crawlable" THEN seen_set ELSE seen_set \cup {full_link}

\* faulty variant: the link replaces what seen held
seen_add_forgets(seen_set, full_link, branch) == {full_link}

\* self.seen.add(full_link) of the branch taken for full_link
seen_add(seen_set, full_link, branch) == seen_set \cup {full_link}

\* faulty variant: the for statement takes the same link again
same_link(i) == i

\* faulty variant: the for statement passes over every other link
skip_link(i) == i + 2

\* for link in available_links: the position of the link taken next
next_link(i) == i + 1

\* faulty variant: one attempt more is made
attempts_left_one_more(n) == n < MaxAttempts + 1

\* for _ in range(3): whether another attempt is made after n of them
attempts_left(n) == n < MaxAttempts

\* what one attempt on a page may come to, with f failures still to happen
Outcomes(page, f) ==
  {[kind |-> "ok", k |-> Len(page)]}
  \cup (IF f > 0
        THEN {[kind |-> "request", k |-> 0]}
             \cup {[kind |-> "collect", k |-> k] : k \in 1..Len(page)}
        ELSE {})

\* links.append(link['href']) for the first o.k anchors of the page
links_after(links, page, o) == links \o SubSeq(page, 1, o.k)

\* except Exception: pass
caught(kind) == TRUE

\* the value a call hands back: {} for None, else the dictionary.  returned
\* keeps the value of the first top-level call and of the latest one after it
Returning(value) ==
  /\ stack' = Pop
  /\ IF Len(stack) = 1
     THEN /\ returned' = IF Len(returned) < 2 THEN Append(returned, value)
                        ELSE [returned EXCEPT ![2] = value]
          /\ phase' = "done"
     ELSE UNCHANGED <<returned, phase>>

\* test.crawl(): the call of line 162, url = self.base_url, on the new crawler
\* and again on the same crawler after a run
Crawl ==
  /\ phase \in {"new", "done"}
  /\ phase' = "running"
  /\ stack' = <<Frame(base_url, "enter", <<>>, 1)>>
  /\ UNCHANGED <<base_url, hrefs, visited, seen, site, got, faults, fetchLog,
                 requestLog, returned, fnVars>>

\* lines 65-66: the url is in visited, the call returns None
EnterVisited ==
  /\ phase = "running"
  /\ Top.pc = "enter"
  /\ already_visited(Top.url, visited)
  /\ Returning({})
  /\ UNCHANGED <<base_url, hrefs, visited, seen, site, got, faults, fetchLog,
                 requestLog, fnVars>>

\* lines 68-71 and 94: the url joins visited and the Link Source is called
EnterFetch ==
  /\ phase = "running"
  /\ Top.pc = "enter"
  /\ ~already_visited(Top.url, visited)
  /\ visited' = visited \cup {Top.url}
  /\ fetchLog' = Append(fetchLog, Top.url)
  /\ IF Top.url \in DOMAIN site
     THEN UNCHANGED site
     ELSE \E ls \in PageLinks(site) : site' = site @@ (Top.url :> ls)
  /\ stack' = SetTop(Frame(Top.url, "fetch", <<>>, 0))
  /\ UNCHANGED <<base_url, hrefs, seen, got, faults, requestLog, returned, phase, fnVars>>

\* lines 95-103: one turn of for _ in range(3).  The attempt either gets
\* through and returns links (line 101), or raises: in requests.get or the
\* parser, before any href is appended, or in the for statement of line 98
\* after k hrefs were appended
Attempt ==
  /\ phase = "running"
  /\ Top.pc = "fetch"
  /\ attempts_left(Top.i)
  /\ requestLog' = Append(requestLog, Top.url)
  /\ \E o \in Outcomes(site[Top.url], faults) :
       IF o.kind = "ok"
       THEN /\ stack' = SetTop(Frame(Top.url, "loop",
                                     links_after(Top.links, site[Top.url], o), 1))
            /\ got' = got @@ (Top.url :> [links |-> stack'[Len(stack)].links,
                                          ok |-> TRUE])
            /\ UNCHANGED <<faults, phase>>
       ELSE IF caught(o.kind)
       THEN /\ stack' = SetTop(Frame(Top.url, "fetch",
                                     links_after(Top.links, site[Top.url], o),
                                     Top.i + 1))
            /\ faults' = faults - 1
            /\ UNCHANGED <<got, phase>>
       ELSE /\ phase' = "raised"
            /\ faults' = faults - 1
            /\ UNCHANGED <<stack, got>>
  /\ UNCHANGED <<base_url, hrefs, visited, seen, site, fetchLog, returned, fnVars>>

\* line 104: the three attempts are over, links is returned as it is
GiveUp ==
  /\ phase = "running"
  /\ Top.pc = "fetch"
  /\ ~attempts_left(Top.i)
  /\ stack' = SetTop(Frame(Top.url, "loop", Top.links, 1))
  /\ got' = got @@ (Top.url :> [links |-> Top.links, ok |-> FALSE])
  /\ UNCHANGED <<base_url, hrefs, visited, seen, site, faults, fetchLog, requestLog,
                 returned, phase, fnVars>>

\* lines 72-84: one turn of the for statement
Iterate ==
  /\ phase = "running"
  /\ Top.pc = "loop"
  /\ Top.i <= Len(Top.links)
  /\ \E full_link \in {absolute_link(base_url, Top.url, StripFragment(Top.links[Top.i]))} :
     LET parsed_link == full_link
         advanced == SetTop([Top EXCEPT !.i = next_link(@)])
     IN IF ~is_current_domain(parsed_link, base_url)
        THEN /\ seen' = seen_add(seen, full_link, "external")
             /\ stack' = advanced
        ELSE IF is_crawlable(full_link, parsed_link, seen)
        THEN /\ seen' = seen_add(seen, full_link, "crawlable")
             /\ stack' = Append(advanced, Frame(full_link, "enter", <<>>, 1))
        ELSE /\ seen' = seen_add(seen, full_link, "recorded")
             /\ stack' = advanced
  /\ UNCHANGED <<base_url, hrefs, visited, site, got, faults, fetchLog, requestLog,
                 returned, phase, fnVars>>

\* line 86: the for statement is over, the call returns the counts
Return ==
  /\ phase = "running"
  /\ Top.pc = "loop"
  /\ Top.i > Len(Top.links)
  /\ Returning({crawl_result(seen, visited)})
  /\ UNCHANGED <<base_url, hrefs, visited, seen, site, got, faults, fetchLog,
                 requestLog, fnVars>>

(***************************************************************************)
(* The helpers applied to one URL, outside any crawl.                      *)
(***************************************************************************)
AbsPaths ==
  {<<"">>} \cup {<<"">> \o p : p \in (SeqsUpTo(Segments, MaxSegs) \ {<<>>})}

FnUrls == {Url(s, n, p) : s \in Schemes, n \in Netlocs, p \in AbsPaths}

\* fn_out gains __resolve_dot_segments of the URL, then of each result
ApplyResolve ==
  /\ phase = "fn"
  /\ Len(fn_out) < 2
  /\ fn_out' = Append(fn_out,
                 resolve_dot_segments(IF fn_out = <<>> THEN fn_url
                                      ELSE fn_out[Len(fn_out)]))
  /\ UNCHANGED <<crawlVars, fn_url, fn_scope, fn_abs>>

\* fn_scope holds __is_current_domain(urlparse(fn_url))
ApplyScope ==
  /\ phase = "fn"
  /\ fn_scope = {}
  /\ fn_scope' = {is_current_domain(fn_url, base_url)}
  /\ UNCHANGED <<crawlVars, fn_url, fn_out, fn_abs>>

\* the href values __absolute_link is fed
FnLinks ==
  { Link("", "", <<"", "a">>, ""),                   \* /a
    Link("", "", <<"", "">>, ""),                    \* /
    Link("", "", <<"", "a", "..", "b">>, ""),        \* /a/../b
    Link("", "", <<"", "dir", "p.html">>, "f"),      \* /dir/p.html#f
    Link("", "other.com", <<"", "a">>, ""),          \* //other.com/a
    Link("", "", <<"p.html">>, ""),                  \* p.html
    Link("", "", <<"..">>, ""),                      \* ..
    Link("https", "other.com", <<"", "">>, "") }     \* https://other.com/

\* the pages the href is found on
Currents ==
  { Url("https", "base.com", <<"", "">>),
    Url("https", "base.com", <<"", "dir", "p.html">>),
    Url("https", "base.com", <<"", "a", "b">>),
    Url("http", "base.com", <<"", "a">>) }

\* fn_abs gains __absolute_link of one href found on one page, and then of
\* the same href found on another page
ApplyAbsolute ==
  /\ phase = "abs"
  /\ Cardinality(fn_abs) < 2
  /\ \E link \in FnLinks, current_url \in Currents :
       /\ \A r \in fn_abs : r.link = link
       /\ fn_abs' = fn_abs \cup
            {[link |-> link, current_url |-> current_url,
              out |-> absolute_link(base_url, current_url, StripFragment(link))]}
  /\ UNCHANGED <<crawlVars, fn_url, fn_out, fn_scope>>

(***************************************************************************)
(* Specifications.                                                         *)
(***************************************************************************)
\* the webs a run is made on: every kind of link behind a server that
\* always answers, and a few links behind one whose answers fail
Webs == {[hrefs |-> RawLinks, faults |-> 0],
         [hrefs |-> FaultLinks, faults |-> MaxFaults]}

\* __init__, lines 52-54
Init ==
  /\ base_url \in BaseUrls
  /\ visited = {}
  /\ seen = {}
  /\ stack = <<>>
  /\ \E w \in Webs : hrefs = w.hrefs /\ faults = w.faults
  /\ site = <<>>
  /\ got = <<>>
  /\ fetchLog = <<>>
  /\ requestLog = <<>>
  /\ returned = <<>>
  /\ phase = "new"
  /\ fn_url = Url("https", "base.com", <<"">>)
  /\ fn_out = <<>>
  /\ fn_scope = {}
  /\ fn_abs = {}

Next ==
  Crawl \/ EnterVisited \/ EnterFetch \/ Attempt \/ GiveUp \/ Iterate \/ Return

Spec == Init /\ [][Next]_vars

\* the interpreter runs the one thread of the program until it ends
FairSpec == Spec /\ WF_vars(Next)

FnInit ==
  /\ base_url \in BaseUrls
  /\ visited = {}
  /\ seen = {}
  /\ stack = <<>>
  /\ site = <<>>
  /\ hrefs = {}
  /\ got = <<>>
  /\ faults = 0
  /\ fetchLog = <<>>
  /\ requestLog = <<>>
  /\ returned = <<>>
  /\ phase = "fn"
  /\ fn_url \in FnUrls
  /\ fn_out = <<>>
  /\ fn_scope = {}
  /\ fn_abs = {}

FnNext == ApplyResolve \/ ApplyScope

FnSpec == FnInit /\ [][FnNext]_vars

AbsInit ==
  /\ base_url \in BaseUrls
  /\ visited = {}
  /\ seen = {}
  /\ stack = <<>>
  /\ hrefs = {}
  /\ site = <<>>
  /\ got = <<>>
  /\ faults = 0
  /\ fetchLog = <<>>
  /\ requestLog = <<>>
  /\ returned = <<>>
  /\ phase = "abs"
  /\ fn_url = Url("https", "base.com", <<"">>)
  /\ fn_out = <<>>
  /\ fn_scope = {}
  /\ fn_abs = {}

AbsNext == ApplyAbsolute

AbsSpec == AbsInit /\ [][AbsNext]_vars

(***************************************************************************)
(* Vocabulary of the properties.                                           *)
(***************************************************************************)
\* the canonical URL that link number j of those returned for u resolves to
Target(u, j) == absolute_link(base_url, u, StripFragment(got[u].links[j]))

Targets(u) ==
  IF u \in DOMAIN got THEN {Target(u, j) : j \in DOMAIN got[u].links} ELSE {}

SameNetloc(u) == u.netloc = base_url.netloc

PageLike(u) ==
  LET last == u.path[Len(u.path)]
  IN EndsWithHtml(last) \/ ~ContainsDot(last)

OnStack(u) == \E k \in DOMAIN stack : stack[k].url = u

\* the URLs reachable from the seed over links that are in scope and page-like
RECURSIVE Closure(_)
Closure(S) ==
  LET N == S \cup {t \in UNION {Targets(u) : u \in S} : SameNetloc(t) /\ PageLike(t)}
  IN IF N = S THEN S ELSE Closure(N)

Done == phase = "done"

(***************************************************************************)
(* Properties.                                                             *)
(***************************************************************************)
\* C1: the Link Source is invoked at most once for any URL string during a
\* crawl run: no URL occurs twice among the pages requested, and the pages
\* requested are the URLs in visited.
C1_FetchedAtMostOnce ==
  /\ \A i, j \in DOMAIN fetchLog : fetchLog[i] = fetchLog[j] => i = j
  /\ visited = {fetchLog[i] : i \in DOMAIN fetchLog}

\* a run that is over, in which a page linked back to the seed
C1_Witness ==
  /\ Done
  /\ Len(fetchLog) >= 2
  /\ \E u \in DOMAIN site : u # base_url /\ base_url \in Targets(u)

\* C2: the top-level crawl() call eventually returns, whatever the (finite,
\* possibly cyclic) link graph of the site.
C2_Terminates == <>Done

\* a run that is over on a site with a cycle: two pages that link to each other
C2_Witness ==
  /\ Done
  /\ \E u, v \in DOMAIN site : u # v /\ v \in Targets(u) /\ u \in Targets(v)

\* C3: every URL in visited passes the Scope Filter against base_url: its
\* netloc is that of base_url.
C3_VisitedInScope == \A u \in visited : SameNetloc(u)

\* a followed link has been visited and a link of another domain recorded
C3_Witness ==
  /\ Cardinality(visited) >= 2
  /\ \E u \in seen : ~SameNetloc(u)

\* C4: every link of a page that has been processed has its canonical URL in
\* seen, whatever branch it took, and a URL of another domain that is in seen
\* is not in visited.
C4_SeenHoldsProcessedLinks ==
  /\ \A k \in DOMAIN stack :
       stack[k].pc = "loop" =>
         \A j \in 1..(stack[k].i - 1) : Target(stack[k].url, j) \in seen
  /\ \A u \in visited : ~OnStack(u) => Targets(u) \subseteq seen
  /\ \A u \in seen : ~SameNetloc(u) => u \notin visited

\* a finished run that recorded a URL of another domain, an asset and a page
C4_Witness ==
  /\ Done
  /\ \E u \in seen : ~SameNetloc(u)
  /\ \E u \in seen : SameNetloc(u) /\ ~PageLike(u)
  /\ \E u \in seen : u \in visited

\* C5: every URL in visited other than the seed is in seen.
C5_VisitedInSeen == (visited \ {base_url}) \subseteq seen

\* a page reached over a link has just joined visited
C5_Witness ==
  /\ Len(stack) >= 2
  /\ Top.pc = "loop"
  /\ Top.url \in visited \ {base_url}

\* C6: when the top-level crawl() has returned, visited is exactly the seed plus
\* every URL reachable from it over links whose canonical URL is in scope and
\* page-like, and every in-scope page-like URL in seen is in visited.
C6_VisitedIsReachable ==
  Done =>
    /\ visited = Closure({base_url})
    /\ \A u \in seen : (SameNetloc(u) /\ PageLike(u)) => u \in visited

\* a finished run over three pages that also met an asset and another domain
C6_Witness ==
  /\ Done
  /\ Cardinality(visited) >= 3
  /\ \E u \in seen : ~PageLike(u)

\* C7: the top-level crawl() on a fresh crawler returns the sizes of the final
\* visited and seen sets.
C7_CountsAreFinal ==
  Done =>
    /\ Len(returned) >= 1
    /\ returned[1] # {}
    /\ \A r \in returned[1] :
         /\ r.visited_count = Cardinality(visited)
         /\ r.seen_count = Cardinality(seen)

\* a finished run with several pages visited and more URLs seen than visited
C7_Witness ==
  /\ Done
  /\ Cardinality(visited) >= 2
  /\ Cardinality(seen) > Cardinality(visited)

\* C8 as stated: the Scope Filter is true iff scheme, host and port all equal
\* those of base_url.
C8_ScopeIffSchemeAndNetloc ==
  \A b \in fn_scope :
    b <=> (fn_url.scheme = base_url.scheme /\ fn_url.netloc = base_url.netloc)

\* C8 amended: the Scope Filter is true iff the netloc (host and port) equals
\* that of base_url, whatever the scheme.
C8_ScopeIffNetloc ==
  \A b \in fn_scope : b <=> (fn_url.netloc = base_url.netloc)

\* the filter has accepted a URL of base_url's netloc with another scheme
C8_Witness ==
  /\ fn_scope = {TRUE}
  /\ fn_url.scheme # base_url.scheme

\* C9: canonicalizing the output of a canonicalization yields that output.
C9_ResolveIdempotent == Len(fn_out) = 2 => fn_out[2] = fn_out[1]

\* C10: the canonical path starts at the root and holds no '.' or '..' segment.
C10_NoDotSegments ==
  Len(fn_out) >= 1 =>
    /\ StartsWithSlash(fn_out[1].path)
    /\ \A k \in DOMAIN fn_out[1].path : fn_out[1].path[k] \notin {".", ".."}

\* the HTTP requests made for u so far
Requests(u) == Cardinality({i \in DOMAIN requestLog : requestLog[i] = u})

\* C11: a call of the Link Source all of whose attempts failed, wherever in
\* the attempt the failure came, returns the empty sequence.
C11_AllFailedReturnsEmpty ==
  \A u \in DOMAIN got : ~got[u].ok => got[u].links = <<>>

\* C12: a call of the Link Source that succeeds, after failed attempts or
\* not, returns exactly the href values of the page's anchors in document
\* order, one entry for each anchor.
C12_SuccessReturnsPageLinks ==
  \A u \in DOMAIN got : got[u].ok => got[u].links = site[u]

\* an href that begins with one '/' and not with '//'
BeginsWithOneSlash(link) ==
  link.scheme = "" /\ link.netloc = "" /\ StartsWithSlash(link.path)

C14_VisitedCanonical ==
  /\ \A u \in visited : resolve_dot_segments(u) = u
  /\ \A i \in DOMAIN fetchLog :
       resolve_dot_segments(fetchLog[i]) = resolve_dot_segments(base_url)
         => fetchLog[i] = base_url

\* the calls in progress are a chain: each one below the top is inside its
\* for statement, waiting for the call above it, which it made for the link
\* just before the one it takes next
StackIsChain ==
  \A k \in 1..(Len(stack) - 1) :
    /\ stack[k].pc = "loop"
    /\ stack[k].i >= 2
    /\ stack[k + 1].url = Target(stack[k].url, stack[k].i - 1)

\* a call moves on in its list of links by one link at a time, and only
\* when no call it made is still in progress
MovesOnWhenTop ==
  \A k \in DOMAIN stack \cap DOMAIN stack' :
    (stack[k].pc = "loop" /\ stack'[k].pc = "loop" /\ stack'[k].i # stack[k].i)
      => (k = Len(stack) /\ stack'[k].i = stack[k].i + 1)

\* C15: the traversal is depth-first in the order of the links returned: a
\* page passes to its next link only when the visit its previous link led to
\* is over, with every visit started from it, and the visits in progress
\* are each the parent of the next on the recursion stack.
C15_DepthFirst == [](phase = "running" => StackIsChain) /\ [][MovesOnWhenTop]_vars

\* the seed is about to take its second link, a page not met before, after
\* its first link led to a page that led to a third page
C15_Witness ==
  /\ phase = "running"
  /\ Len(stack) = 1
  /\ Top.pc = "loop"
  /\ Top.i = 2
  /\ Len(Top.links) >= 2
  /\ Len(fetchLog) = 3
  /\ Target(Top.url, 2) \notin seen
  /\ SameNetloc(Target(Top.url, 2))
  /\ PageLike(Target(Top.url, 2))

\* a step in which crawl calls itself: a new call appears above one in progress
Descends == phase = "running" /\ Len(stack') = Len(stack) + 1

\* C16: crawl calls itself at most once for each canonical URL: never for a
\* URL that is in seen already, and the URL it calls itself for is in seen
\* from then on.
C16_DescendsOncePerUrl ==
  /\ [][Descends => /\ stack'[Len(stack')].url \notin seen
                    /\ stack'[Len(stack')].url \in seen']_vars
  /\ [][\A u \in seen : u \in seen']_vars

\* a finished run in which one page held two links to the same page, which
\* was visited
C16_Witness ==
  /\ Done
  /\ \E u \in DOMAIN got : \E j, k \in DOMAIN got[u].links :
       /\ j < k
       /\ Target(u, j) = Target(u, k)
       /\ Target(u, j) \in visited \ {base_url}

\* C17: a call of crawl for a URL that is in visited returns at once, None
\* when it is a top-level call: the Link Source is not called, no HTTP
\* request is made, visited and seen stay as they are.
C17_RevisitIsNoOp ==
  [][(phase = "running" /\ Top.pc = "enter" /\ Top.url \in visited)
       => /\ stack' = SubSeq(stack, 1, Len(stack) - 1)
          /\ visited' = visited
          /\ seen' = seen
          /\ fetchLog' = fetchLog
          /\ requestLog' = requestLog
          /\ Len(stack) = 1 => returned'[Len(returned')] = {}]_vars

\* crawl() was called again on the crawler after a run over several pages,
\* and has returned
C17_Witness ==
  /\ Done
  /\ Len(returned) = 2
  /\ Cardinality(visited) >= 2
  /\ Cardinality(seen) >= 2

\* C18: a call of the Link Source makes at most 3 attempts and none after
\* one got through, no failure of an attempt reaches crawl, and a run makes
\* at most 3 HTTP requests for each URL in visited and none for another URL.
C18_AtMostThreeAttempts ==
  /\ [](/\ phase # "raised"
        /\ \A i \in DOMAIN requestLog :
             requestLog[i] \in visited /\ Requests(requestLog[i]) <= 3)
  /\ [][\A u \in DOMAIN got : Requests(u)' = Requests(u)]_vars

\* a finished run in which the three attempts on one page failed and the
\* first attempt on another page got through
C18_Witness ==
  /\ Done
  /\ \E u \in DOMAIN got : ~got[u].ok /\ Requests(u) = 3
  /\ \E u \in DOMAIN got : got[u].ok /\ Requests(u) = 1

\* C19: visited and seen are empty on a new crawler, and no URL ever leaves
\* either of them.
C19_SetsOnlyGrow ==
  /\ (visited = {} /\ seen = {})
  /\ [][visited \subseteq visited' /\ seen \subseteq seen']_vars

\* a run in progress has put several URLs in visited and more in seen
C19_Witness ==
  /\ phase = "running"
  /\ Cardinality(visited) >= 2
  /\ Cardinality(seen) >= 3

\* C20: the canonical path holds no run of two or more '/', at its start or
\* elsewhere.
C20_NoSlashRuns ==
  Len(fn_out) >= 1 =>
    \A k \in 2..(Len(fn_out[1].path) - 1) : fn_out[1].path[k] # ""

====
